---- MODULE Spec2Model ----
(***************************************************************************)
(* A model of knousere/apnsservice: the per-application APNS connection    *)
(* manager (connectionAPNS, apnsobject.go) and the exposed functions that  *)
(* drive it (LaunchConnection, PushOne, CloseConnection; their text is in  *)
(* README.md).                                                             *)
(*                                                                         *)
(* One connectionAPNS object is a "manager".  Every successful launch      *)
(* makes four fresh channels (chanDone, chanDoneLog, chanSend, chanLog)    *)
(* and starts two goroutines running launchSocket.  A "channel set" c      *)
(* stands for the four channels made by the c-th successful launch, and    *)
(* <<c, socketID>> for the goroutine that launch started.  A goroutine     *)
(* reads a.chanSend, a.chanDone, ... through the manager each time it      *)
(* executes a channel operation, so it uses the manager's CURRENT channel  *)
(* set (cur), and keeps the channel it is parked on once it has blocked.   *)
(*                                                                         *)
(* Payloads are numbered 1, 2, ... in order of submission; 0 is the zero   *)
(* value apns.Payload{} that an unwritten cache slot holds.                *)
(***************************************************************************)
EXTENDS Integers, Sequences, FiniteSets, TLC

(***************************************************************************)
(* Sizes.  The source fixes the retry cache at 32 slots and both channels  *)
(* at 100 entries; the code is written for any size (cap of the cache,     *)
(* modulo arithmetic), and the model runs it at the small sizes below.     *)
(***************************************************************************)
intCacheSize == 2       \* slots of payloadCache (32 in launchSocket)
SendCap      == 2       \* capacity of chanSend (100 in launch)
LogCap       == 2       \* capacity of chanLog (100 in launch)
LogRoom      == 7       \* a chanLog that holds all a pair logs in a quiet run
backoffLimit == 128     \* const backoffLimit

MaxMgr     == 2         \* connectionAPNS objects ever made
MaxLaunch  == 2         \* successful launches (channel sets) ever made
MaxSubmit  == 2         \* payloads submitted through PushOne
MaxClosure == 1         \* ConnectionClose values the gateway delivers
BackoffClosures == 8    \* closures in the backoff specification
ReplayClosures  == 2    \* closures in the replay specification (one a goroutine)
CacheSubmit     == 3    \* submissions in the cache specification (> intCacheSize)

Mgrs    == 1..MaxMgr
Chans   == 1..MaxLaunch
Sockets == 1..2
Workers == Chans \X Sockets

VARIABLES
    status,       \* a.status of each manager
    isLogging,    \* a.isLogging
    cur,          \* the channel set a's channel fields point to (0: nil)
    mapAPNS,      \* mapAPNS[appID] for the one application: a manager, or 0
    owner,        \* the manager whose launch made channel set c (0: not made)
    chanSend,     \* contents of each chanSend
    chanLog,      \* contents of each chanLog
    chanDone,     \* whether each chanDone has been closed
    chanDoneLog,  \* whether each chanDoneLog has been closed
    wk,           \* the local state of each launchSocket goroutine
    panicked,     \* a goroutine panicked (close of a closed channel): the process is dead
    sent,         \* history: the payloads handed to a transport
    recent,       \* history: the last intCacheSize payloads handed to a transport
    nSent,        \* history: how many payloads were handed to a transport
    late,         \* history: payloads whose pushOne found the manager not Active
    nItems,       \* payloads submitted so far
    nClosures,    \* ConnectionClose values delivered so far
    lim           \* the environment of the run (fixed by Init)

vars == <<status, isLogging, cur, mapAPNS, owner, chanSend, chanLog, chanDone,
          chanDoneLog, wk, panicked, sent, recent, nSent, late, nItems, nClosures,
          lim>>

mgrVars  == <<status, isLogging, cur, mapAPNS, owner>>
chanVars == <<chanSend, chanLog, chanDone, chanDoneLog>>
sendVars == <<sent, recent, nSent>>
histVars == <<sent, recent, nSent, late, nItems, nClosures>>

Min(a, b) == IF a < b THEN a ELSE b

RECURSIVE Pow2(_)
Pow2(k) == IF k = 0 THEN 1 ELSE 2 * Pow2(k - 1)

\* The last k elements of s (all of s when it is shorter).
LastK(s, k) == IF Len(s) <= k THEN s ELSE SubSeq(s, Len(s) - k + 1, Len(s))

(***************************************************************************)
(* The local variables of one launchSocket goroutine (lines 181-188), the  *)
(* statement it is at (pc, named after the source line it is about to      *)
(* execute), and what it holds of the gateway.                             *)
(*   conn     the state of connLast: "none" (nil), "open", "disconnected"  *)
(*            (after connAPNS.Disconnect()), "closed" (its ConnectionClose *)
(*            has been received from CloseChannel)                         *)
(*   payload  the payload received from chanSend at line 222               *)
(*   unsent, hasErr   closeError.UnsentPayloads.Len(), ErrorPayload != nil *)
(*   i, ret   handleCloseError's loop counter and its caller               *)
(*   blk      the channel set of the channel the goroutine is parked on    *)
(*   fails    history: closures since this goroutine's last send           *)
(*   hce      history: "running" while handleCloseError runs, "returned"   *)
(*            from its return to the goroutine's next step, else "none"    *)
(*   exp      history: the payloads most recently handed to a transport    *)
(*            when the closure arrived, as many as were reported unsent    *)
(*            (at most intCacheSize)                                       *)
(*   rep      history: what this call of handleCloseError has enqueued     *)
(*   sn       history: nSent when the closure arrived                      *)
(***************************************************************************)
EmptyCache == [k \in 1..intCacheSize |-> 0]

IdleWorker ==
    [pc |-> "idle", bShutdown |-> FALSE, good |-> FALSE, conn |-> "none",
     idx |-> intCacheSize - 1, cache |-> EmptyCache, backoff |-> 1,
     payload |-> 0, unsent |-> 0, hasErr |-> FALSE, i |-> 0, ret |-> "inner",
     blk |-> 0, fails |-> 0, hce |-> "none", exp |-> <<>>, rep |-> <<>>, sn |-> 0]

\* Line 190-196: the head of the outer loop.
TopPc(bShutdown) == IF bShutdown THEN "log192" ELSE "log196"

\* Lines 181-188 and the first test of the outer loop.
NewWorker == [IdleWorker EXCEPT !.pc = TopPc(FALSE)]

Started(w) == wk[w].pc # "idle"
Exited(w)  == wk[w].pc = "exited"
MgrOf(w)   == owner[w[1]]

(***************************************************************************)
(* launchSocket (lines 179-269) and handleCloseError (272-304).            *)
(***************************************************************************)
\* The channel set a channel operation of w acts on: the one it is parked
\* on, else the manager's current one.
ChanOf(w) == IF wk[w].blk # 0 THEN wk[w].blk ELSE cur[MgrOf(w)]

backoffAlwaysDoubles(b) == b * 2

\* Lines 241-243.
backoffAfterClose(b) == IF b < backoffLimit THEN b * 2 ELSE b

\* Line 208: the seconds a goroutine waits after a failed connection attempt.
connectRetrySeconds == 5

\* The timer armed in the select a goroutine is at: the wait after a failed
\* connection attempt (line 208) and the wait for connLast's ConnectionClose
\* (line 256) take connectRetrySeconds, the send (line 226) takes
\* exponentialBackoff seconds.
timerSeconds(r) == IF r.pc = "send" THEN r.backoff ELSE connectRetrySeconds

\* Lines 293-297: the number of cache slots handleCloseError walks.
clampUnsent(n) == IF n > intCacheSize THEN intCacheSize ELSE n

\* Line 299, as a slot of the 0-based cache.
replayIdx(idx, i) == (idx + intCacheSize - i + 1) % intCacheSize

\* Lines 229-230: the cursor after one more send.
nextIdx(idx) == (idx + 1) % intCacheSize

\* handleCloseError returns: to line 245 (bConnectionGood = false, and both
\* loops go round to line 190) or to line 265.
HceReturn(r) ==
    IF r.ret = "inner"
    THEN [r EXCEPT !.good = FALSE, !.i = 0, !.hce = "returned",
                   !.pc = TopPc(r.bShutdown)]
    ELSE [r EXCEPT !.i = 0, !.hce = "returned", !.pc = "log265"]

\* Lines 292-298: enter the replay loop or skip it.
ReplayStart(r) ==
    IF r.unsent > 0
    THEN [r EXCEPT !.i = clampUnsent(r.unsent), !.pc = "replay"]
    ELSE HceReturn(r)

LogPcs == {"log192", "log196", "log202", "log205", "log211", "log223", "log240",
           "log248", "log258", "log261", "log265", "log275", "log279", "log285"}

\* The goroutine after the logPrint it is at has returned, run on to its next
\* channel operation or call into the gateway library.
AfterLog(r) ==
    CASE r.pc = "log192" -> [r EXCEPT !.pc = IF r.conn # "none" THEN "final" ELSE "log265"]
      [] r.pc = "log196" -> [r EXCEPT !.pc = "connect"]
      [] r.pc = "log202" -> [r EXCEPT !.pc = "select"]
      [] r.pc = "log205" -> [r EXCEPT !.pc = "wait"]
      [] r.pc = "log211" -> [r EXCEPT !.bShutdown = TRUE, !.pc = TopPc(TRUE)]
      [] r.pc = "log223" -> [r EXCEPT !.pc = "send"]
      [] r.pc = "log240" -> [r EXCEPT !.backoff = backoffAfterClose(r.backoff),
                                      !.fails = r.fails + 1,
                                      !.ret = "inner", !.pc = "log275"]
      [] r.pc = "log248" -> [r EXCEPT !.conn = "disconnected", !.bShutdown = TRUE,
                                      !.pc = TopPc(TRUE)]
      [] r.pc = "log258" -> [r EXCEPT !.pc = "log265"]
      [] r.pc = "log261" -> [r EXCEPT !.ret = "final", !.pc = "log275"]
      [] r.pc = "log265" -> [r EXCEPT !.pc = "close267"]
      [] r.pc = "log275" -> IF r.unsent > 0 THEN [r EXCEPT !.pc = "log279"]
                            ELSE IF r.hasErr THEN [r EXCEPT !.pc = "log285"]
                            ELSE ReplayStart(r)
      [] r.pc = "log279" -> IF r.hasErr THEN [r EXCEPT !.pc = "log285"]
                            ELSE ReplayStart(r)
      [] r.pc = "log285" -> ReplayStart(r)

\* When no caller ever passes isLogging = true, a logPrint is the test of
\* a.isLogging and nothing else: the goroutine runs through it to its next
\* channel operation or call into the gateway library.
RECURSIVE SkipLogs(_)
SkipLogs(r) == IF r.pc \in LogPcs THEN SkipLogs(AfterLog(r)) ELSE r

Settle(r) == IF lim.logging = {FALSE} THEN SkipLogs(r) ELSE r

Upd(w, r) == wk' = [wk EXCEPT ![w] = Settle(r)]

\* The history of a finished handleCloseError is dropped at the goroutine's
\* next step.
Forget(r) == IF r.hce = "returned"
             THEN [r EXCEPT !.hce = "none", !.exp = <<>>, !.rep = <<>>, !.sn = 0,
                            !.unsent = 0, !.hasErr = FALSE]
             ELSE r

(***************************************************************************)
(* connectionAPNS.launch (lines 52-108).  out is what the environment does *)
(* to it: "ok", "openFail" (os.OpenFile fails) or "feedbackFail"           *)
(* (getBadTokens fails).  isLogging is assigned before the status is       *)
(* looked at.  logListener is not started: no statement of the repository  *)
(* calls it.                                                               *)
(***************************************************************************)
nLaunch == Cardinality({c \in Chans : owner[c] # 0})

LaunchOutcomes == {"ok", "openFail", "feedbackFail"}

launchStartsNoCerts(st, out) == st # "Active" /\ out = "ok"

launchStartsOnError(st, out) == st \notin {"Active", "NoCerts"}

\* Lines 59-62 and the two error returns (78-81, 85-88): whether the call
\* goes on to make the channels and start the goroutines.
launchStarts(st, out) == st \notin {"Active", "NoCerts"} /\ out = "ok"

\* st is a.status when launch is entered.
launch(m, st, isLog, out) ==
    /\ isLogging' = [isLogging EXCEPT ![m] = isLog]
    /\ IF launchStarts(st, out)
       THEN LET c == nLaunch + 1 IN
            /\ c <= lim.launch
            /\ owner' = [owner EXCEPT ![c] = m]
            /\ cur' = [cur EXCEPT ![m] = c]
            /\ wk' = [w \in Workers |-> IF w[1] = c THEN Settle(NewWorker) ELSE wk[w]]
            /\ status' = [status EXCEPT ![m] = "Active"]
       ELSE /\ status' = [status EXCEPT ![m] = st]
            /\ UNCHANGED <<owner, cur, wk>>

\* newConnection (README.md 263-275).
newConnection(hasCert) == IF hasCert THEN "CertsFound" ELSE "NoCerts"

nMgr == Cardinality({m \in Mgrs : status[m] # "Unknown"})

\* LaunchConnection (README.md 246-260) with isPushEnabled = 1: a new
\* connectionAPNS is made on every call (from &appCert, never nil), launched,
\* and on success stored in mapAPNS in place of whatever was there.
LaunchConnection(isLog, out) ==
    /\ ~panicked
    /\ nMgr < lim.mgr
    /\ LET m == nMgr + 1 IN
       /\ launch(m, newConnection(TRUE), isLog, out)
       /\ mapAPNS' = IF out = "ok" THEN m ELSE mapAPNS
    /\ UNCHANGED <<chanVars, panicked, histVars, lim>>

\* The same with the certificate pointer given to newConnection nil or not
\* (README.md 263-267).  launch returns nil on a NoCerts manager before it
\* reaches the error returns, so that manager is stored in mapAPNS.
LaunchNew(hasCert, isLog, out) ==
    /\ ~panicked
    /\ nMgr < lim.mgr
    /\ LET m == nMgr + 1
           st == newConnection(hasCert) IN
       /\ launch(m, st, isLog, out)
       /\ mapAPNS' = IF out = "ok" \/ st = "NoCerts" THEN m ELSE mapAPNS
    /\ UNCHANGED <<chanVars, panicked, histVars, lim>>

\* a.launch called again on a manager that exists (lines 52-108).
Launch(m, isLog, out) ==
    /\ ~panicked
    /\ status[m] # "Unknown"
    /\ launch(m, status[m], isLog, out)
    /\ UNCHANGED <<mapAPNS, chanVars, panicked, histVars, lim>>

(***************************************************************************)
(* connectionAPNS.close (lines 111-116), reached through CloseConnection   *)
(* (README.md 286-291).  close(a.chanDone) on a closed channel panics.     *)
(***************************************************************************)
closeActsAlways(m) == TRUE

\* Line 112.
closeActs(m) == status[m] = "Active"

close(m) ==
    IF closeActs(m)
    THEN /\ chanDone' = [chanDone EXCEPT ![cur[m]] = TRUE]
         /\ panicked' = chanDone[cur[m]]
         /\ status' = [status EXCEPT ![m] = "CertsFound"]
    ELSE UNCHANGED <<chanDone, panicked, status>>

CloseConnection ==
    /\ ~panicked
    /\ mapAPNS # 0
    /\ close(mapAPNS)
    /\ UNCHANGED <<isLogging, cur, mapAPNS, owner, chanSend, chanLog, chanDoneLog,
                   wk, histVars, lim>>

(***************************************************************************)
(* connectionAPNS.pushOne (lines 119-123), reached through PushOne         *)
(* (README.md 278-283).  The send blocks while chanSend is full.           *)
(***************************************************************************)
pushOneAcceptsAlways(m) == TRUE

\* Line 120.
pushOneAccepts(m) == status[m] = "Active"

PushOne ==
    /\ ~panicked
    /\ mapAPNS # 0
    /\ nItems < lim.submit
    /\ LET m == mapAPNS
           p == nItems + 1 IN
       IF pushOneAccepts(m)
       THEN /\ Len(chanSend[cur[m]]) < SendCap
            /\ chanSend' = [chanSend EXCEPT ![cur[m]] = Append(@, p)]
       ELSE UNCHANGED chanSend
    /\ late' = IF status[mapAPNS] # "Active" THEN late \cup {nItems + 1} ELSE late
    /\ nItems' = nItems + 1
    /\ UNCHANGED <<mgrVars, chanLog, chanDone, chanDoneLog, wk, panicked, sendVars,
                   nClosures, lim>>

\* logPrint, logPrintln, logPrintf (lines 126-156): nothing when a.isLogging is
\* false, else a send on a.chanLog, which blocks while the channel is full.
\* Nothing receives from chanLog.
LogStep(w) ==
    /\ ~panicked
    /\ wk[w].pc \in LogPcs
    /\ LET r == wk[w]
           c == ChanOf(w) IN
       \/ /\ r.blk = 0 /\ ~isLogging[MgrOf(w)]
          /\ Upd(w, AfterLog(r))
          /\ UNCHANGED chanLog
       \/ /\ r.blk # 0 \/ isLogging[MgrOf(w)]
          /\ Len(chanLog[c]) < lim.logcap
          /\ chanLog' = [chanLog EXCEPT ![c] = Append(@, <<w[2], r.pc>>)]
          /\ Upd(w, AfterLog([r EXCEPT !.blk = 0]))
       \/ /\ r.blk = 0 /\ isLogging[MgrOf(w)]
          /\ Len(chanLog[c]) >= lim.logcap
          /\ Upd(w, [r EXCEPT !.blk = c])
          /\ UNCHANGED chanLog
    /\ UNCHANGED <<mgrVars, chanSend, chanDone, chanDoneLog, panicked, histVars, lim>>

\* Line 197: apns.NewAPNSConnection succeeds (200-201) or fails (204).
Connect(w) ==
    /\ ~panicked
    /\ wk[w].pc = "connect"
    /\ \/ Upd(w, [Forget(wk[w]) EXCEPT !.conn = "open", !.good = TRUE, !.pc = "log202"])
       \/ Upd(w, [Forget(wk[w]) EXCEPT !.good = FALSE, !.pc = "log205"])
    /\ UNCHANGED <<mgrVars, chanVars, panicked, histVars, lim>>

\* Lines 207-213: the five-second timer, or a.chanDone.
WaitTimer(w) ==
    /\ ~panicked
    /\ wk[w].pc = "wait"
    /\ Upd(w, [wk[w] EXCEPT !.blk = 0, !.pc = TopPc(wk[w].bShutdown)])
    /\ UNCHANGED <<mgrVars, chanVars, panicked, histVars, lim>>

WaitDone(w) ==
    /\ ~panicked
    /\ wk[w].pc = "wait"
    /\ chanDone[ChanOf(w)]
    /\ Upd(w, [wk[w] EXCEPT !.blk = 0, !.pc = "log211"])
    /\ UNCHANGED <<mgrVars, chanVars, panicked, histVars, lim>>

\* A select none of whose manager channels is ready parks on them.
Park(w) ==
    /\ ~panicked
    /\ wk[w].blk = 0
    /\ LET c == cur[MgrOf(w)] IN
       /\ \/ wk[w].pc = "wait" /\ ~chanDone[c]
          \/ wk[w].pc = "select" /\ ~chanDone[c] /\ chanSend[c] = <<>>
       /\ Upd(w, [wk[w] EXCEPT !.blk = c])
    /\ UNCHANGED <<mgrVars, chanVars, panicked, histVars, lim>>

\* Line 222: a payload is received from a.chanSend.
SelectRecv(w) ==
    /\ ~panicked
    /\ wk[w].pc = "select"
    /\ LET c == ChanOf(w) IN
       /\ chanSend[c] # <<>>
       /\ chanSend' = [chanSend EXCEPT ![c] = Tail(@)]
       /\ Upd(w, [wk[w] EXCEPT !.blk = 0, !.payload = Head(chanSend[c]),
                                !.pc = "log223"])
    /\ UNCHANGED <<mgrVars, chanLog, chanDone, chanDoneLog, panicked, histVars, lim>>

\* Line 235: the gateway closed the connection; n payloads are reported
\* unsent, and e says whether an ErrorPayload comes with it.
SelectClose(w, n, e) ==
    /\ ~panicked
    /\ wk[w].pc = "select"
    /\ wk[w].conn = "open"
    /\ nClosures < lim.closure
    /\ nClosures' = nClosures + 1
    /\ Upd(w, [wk[w] EXCEPT !.blk = 0, !.conn = "closed", !.unsent = n,
                             !.hasErr = e, !.hce = "running",
                             !.exp = LastK(recent, clampUnsent(n)), !.rep = <<>>,
                             !.sn = nSent, !.pc = "log240"])
    /\ UNCHANGED <<mgrVars, chanVars, panicked, sendVars, late, nItems, lim>>

\* Line 247: a.chanDone is closed.
SelectDone(w) ==
    /\ ~panicked
    /\ wk[w].pc = "select"
    /\ chanDone[ChanOf(w)]
    /\ Upd(w, [wk[w] EXCEPT !.blk = 0, !.pc = "log248"])
    /\ UNCHANGED <<mgrVars, chanVars, panicked, histVars, lim>>

\* Lines 228-232: the transport takes the payload; it is cached and the
\* backoff is reset.
SendOK(w) ==
    /\ ~panicked
    /\ wk[w].pc = "send"
    /\ LET r == wk[w]
           k == nextIdx(r.idx) IN
       /\ sent' = sent \cup {r.payload}
       /\ recent' = LastK(Append(recent, r.payload), intCacheSize)
       /\ nSent' = nSent + 1
       /\ Upd(w, [r EXCEPT !.idx = k, !.cache[k + 1] = r.payload, !.backoff = 1,
                            !.fails = 0, !.payload = 0, !.pc = "select"])
    /\ UNCHANGED <<mgrVars, chanVars, panicked, late, nItems, nClosures, lim>>

\* Lines 226-227: the timer of exponentialBackoff seconds fires first.  The
\* payload received at line 222 is not sent, cached or put back.
SendTimeout(w) ==
    /\ ~panicked
    /\ wk[w].pc = "send"
    /\ Upd(w, [wk[w] EXCEPT !.payload = 0, !.pc = "select"])
    /\ UNCHANGED <<mgrVars, chanVars, panicked, histVars, lim>>

\* Line 301, once per step: pushOne of the cache slot replayIdx names.
Replay(w) ==
    /\ ~panicked
    /\ wk[w].pc = "replay"
    /\ LET r == wk[w]
           m == MgrOf(w)
           c == ChanOf(w)
           p == r.cache[replayIdx(r.idx, r.i) + 1]
           next == IF r.i = 1 THEN HceReturn([r EXCEPT !.blk = 0])
                   ELSE [r EXCEPT !.blk = 0, !.i = r.i - 1] IN
       \/ /\ r.blk = 0 /\ ~pushOneAccepts(m)
          /\ Upd(w, next)
          /\ UNCHANGED chanSend
       \/ /\ r.blk # 0 \/ pushOneAccepts(m)
          /\ Len(chanSend[c]) < SendCap
          /\ chanSend' = [chanSend EXCEPT ![c] = Append(@, p)]
          /\ Upd(w, [next EXCEPT !.rep = Append(r.rep, p)])
       \/ /\ r.blk = 0 /\ pushOneAccepts(m)
          /\ Len(chanSend[c]) >= SendCap
          /\ Upd(w, [r EXCEPT !.blk = c])
          /\ UNCHANGED chanSend
    /\ UNCHANGED <<mgrVars, chanLog, chanDone, chanDoneLog, panicked, histVars, lim>>

\* Lines 256-263: five seconds for connLast's ConnectionClose to arrive.
FinalTimer(w) ==
    /\ ~panicked
    /\ wk[w].pc = "final"
    /\ Upd(w, [wk[w] EXCEPT !.pc = "log258"])
    /\ UNCHANGED <<mgrVars, chanVars, panicked, histVars, lim>>

FinalClose(w, n, e) ==
    /\ ~panicked
    /\ wk[w].pc = "final"
    /\ wk[w].conn = "disconnected"
    /\ nClosures < lim.closure
    /\ nClosures' = nClosures + 1
    /\ Upd(w, [wk[w] EXCEPT !.conn = "closed", !.unsent = n, !.hasErr = e,
                             !.hce = "running",
                             !.exp = LastK(recent, clampUnsent(n)), !.rep = <<>>,
                             !.sn = nSent, !.pc = "log261"])
    /\ UNCHANGED <<mgrVars, chanVars, panicked, sendVars, late, nItems, lim>>

\* Lines 266-268: bShutdown is true here; close(a.chanDoneLog) panics when
\* the channel is closed already.
Exit(w) ==
    /\ ~panicked
    /\ wk[w].pc = "close267"
    /\ LET c == cur[MgrOf(w)] IN
       IF wk[w].bShutdown
       THEN /\ chanDoneLog' = [chanDoneLog EXCEPT ![c] = TRUE]
            /\ panicked' = chanDoneLog[c]
            /\ Upd(w, [Forget(wk[w]) EXCEPT !.pc = IF chanDoneLog[c] THEN "close267"
                                                   ELSE "exited"])
       ELSE /\ Upd(w, [Forget(wk[w]) EXCEPT !.pc = "exited"])
            /\ UNCHANGED <<chanDoneLog, panicked>>
    /\ UNCHANGED <<mgrVars, chanSend, chanLog, chanDone, histVars, lim>>

(***************************************************************************)
(* The program, in an environment lim that says how much the callers and   *)
(* the gateway do: how many managers, launches, submissions and closures,  *)
(* which unsent counts the gateway reports, which logging flags the        *)
(* callers pass and how many entries chanLog holds.                        *)
(***************************************************************************)
InitWith(l) ==
    /\ status = [m \in Mgrs |-> "Unknown"]
    /\ isLogging = [m \in Mgrs |-> FALSE]
    /\ cur = [m \in Mgrs |-> 0]
    /\ mapAPNS = 0
    /\ owner = [c \in Chans |-> 0]
    /\ chanSend = [c \in Chans |-> <<>>]
    /\ chanLog = [c \in Chans |-> <<>>]
    /\ chanDone = [c \in Chans |-> FALSE]
    /\ chanDoneLog = [c \in Chans |-> FALSE]
    /\ wk = [w \in Workers |-> IdleWorker]
    /\ panicked = FALSE
    /\ sent = {}
    /\ recent = <<>>
    /\ nSent = 0
    /\ late = {}
    /\ nItems = 0
    /\ nClosures = 0
    /\ lim = l

\* The callers of LaunchConnection, a.launch and CloseConnection.
Lifecycle ==
    \/ \E isLog \in lim.logging, out \in LaunchOutcomes : LaunchConnection(isLog, out)
    \/ \E m \in Mgrs, isLog \in lim.logging, out \in LaunchOutcomes : Launch(m, isLog, out)
    \/ CloseConnection

\* The goroutines while no payload and no ConnectionClose arrives.
Core ==
    \E w \in Workers :
        \/ Connect(w)
        \/ WaitTimer(w)
        \/ WaitDone(w)
        \/ Park(w)
        \/ SelectDone(w)
        \/ FinalTimer(w)
        \/ Exit(w)

\* Payloads: submitted, received by a goroutine, handed to its transport or not.
Traffic ==
    \/ PushOne
    \/ \E w \in Workers :
          \/ SelectRecv(w)
          \/ SendOK(w)
          \/ SendTimeout(w)

\* The gateway closes connections, and handleCloseError replays.
Closures ==
    \E w \in Workers :
        \/ \E n \in lim.unsents, e \in lim.errs : SelectClose(w, n, e)
        \/ \E n \in lim.unsents, e \in lim.errs : FinalClose(w, n, e)
        \/ Replay(w)

Next == Lifecycle \/ Core \/ Traffic \/ Closures

Init ==
    InitWith([mgr |-> 1, launch |-> 1, submit |-> MaxSubmit, closure |-> MaxClosure,
              unsents |-> {0, 1, intCacheSize + 1}, errs |-> {FALSE},
              logging |-> {FALSE},
              logcap |-> LogCap])

\* One application, launched once, with logging off.
Spec == Init /\ [][Next]_vars

\* Managers made with and without a certificate, launched, closed and
\* launched again.
InitStatus ==
    InitWith([mgr |-> MaxMgr, launch |-> MaxLaunch, submit |-> 0, closure |-> 0,
              unsents |-> {0}, errs |-> {FALSE}, logging |-> {FALSE},
              logcap |-> LogCap])

Managers ==
    \/ \E hasCert \in BOOLEAN, isLog \in lim.logging, out \in LaunchOutcomes :
          LaunchNew(hasCert, isLog, out)
    \/ \E m \in Mgrs, isLog \in lim.logging, out \in LaunchOutcomes : Launch(m, isLog, out)
    \/ CloseConnection

SpecStatus == InitStatus /\ [][Managers \/ Core]_vars

\* Submissions before and after close, and one closure that reports one
\* unsent payload.
InitSubmit ==
    InitWith([mgr |-> 1, launch |-> 1, submit |-> MaxSubmit, closure |-> 1,
              unsents |-> {1}, errs |-> {FALSE}, logging |-> {FALSE},
              logcap |-> LogCap])

SpecSubmit == InitSubmit /\ [][Next]_vars

\* LaunchConnection and a.launch called up to MaxLaunch times with success,
\* nothing submitted and no connection closed by the gateway.
InitLaunch ==
    InitWith([mgr |-> MaxMgr, launch |-> MaxLaunch, submit |-> 0, closure |-> 0,
              unsents |-> {0}, errs |-> {FALSE}, logging |-> {FALSE},
              logcap |-> LogCap])

SpecLaunch == InitLaunch /\ [][Lifecycle \/ Core]_vars

\* More submissions than the cache has slots, and one closure that reports
\* any unsent count up to one more than the cache holds.
InitCache ==
    InitWith([mgr |-> 1, launch |-> 1, submit |-> CacheSubmit, closure |-> 1,
              unsents |-> 1..(intCacheSize + 1), errs |-> {FALSE},
              logging |-> {FALSE},
              logcap |-> LogCap])

SpecCache == InitCache /\ [][Next]_vars

\* Enough submissions to fill chanSend, and a closure for each goroutine that
\* reports one unsent payload.
InitReplay ==
    InitWith([mgr |-> 1, launch |-> 1, submit |-> SendCap, closure |-> ReplayClosures,
              unsents |-> {1}, errs |-> {FALSE}, logging |-> {FALSE},
              logcap |-> LogCap])

SpecReplay == InitReplay /\ [][Next]_vars

\* One manager closed and launched again, and one payload submitted.
InitRelaunch ==
    InitWith([mgr |-> 1, launch |-> MaxLaunch, submit |-> 1, closure |-> 0,
              unsents |-> {0}, errs |-> {FALSE}, logging |-> {FALSE},
              logcap |-> LogCap])

SpecRelaunch == InitRelaunch /\ [][Lifecycle \/ Core \/ Traffic]_vars

\* Closure after closure, none of them reporting unsent payloads.
InitBackoff ==
    InitWith([mgr |-> 1, launch |-> 1, submit |-> 1, closure |-> BackoffClosures,
              unsents |-> {0}, errs |-> {FALSE}, logging |-> {FALSE},
              logcap |-> LogCap])

CloseSignals ==
    \E w \in Workers :
        \/ \E n \in lim.unsents, e \in lim.errs : SelectClose(w, n, e)
        \/ \E n \in lim.unsents, e \in lim.errs : FinalClose(w, n, e)

SpecBackoff == InitBackoff /\ [][Lifecycle \/ Core \/ Traffic \/ CloseSignals]_vars

\* Logging on or off as the caller of launch says; every logPrint is a step
\* of its own.  Nothing is submitted and the gateway closes no connection.
InitLog ==
    InitWith([mgr |-> 1, launch |-> 1, submit |-> 0, closure |-> 0,
              unsents |-> {0}, errs |-> {FALSE}, logging |-> {TRUE, FALSE},
              logcap |-> LogCap])

Logging == \E w \in Workers : LogStep(w)

SpecLog == InitLog /\ [][Lifecycle \/ Core \/ Logging]_vars

\* Logging on from the launch, with a chanLog that does not fill up.
InitRelay ==
    InitWith([mgr |-> 1, launch |-> 1, submit |-> 0, closure |-> 0,
              unsents |-> {0}, errs |-> {FALSE}, logging |-> {TRUE},
              logcap |-> LogRoom])

SpecRelay == InitRelay /\ [][Lifecycle \/ Core \/ Logging]_vars

\* The scheduler runs every goroutine that can run, the timers fire, and a
\* select that finds a.chanDone closed again and again takes that case.
WorkerStep(w) ==
    Connect(w) \/ WaitTimer(w) \/ Park(w) \/ FinalTimer(w) \/ Exit(w) \/ LogStep(w)

FairWorkers ==
    \A w \in Workers :
        /\ WF_vars(WorkerStep(w))
        /\ SF_vars(WaitDone(w))
        /\ SF_vars(SelectDone(w))

SpecLogFair == SpecLog /\ FairWorkers

(***************************************************************************)
(* What the claims speak of.                                               *)
(***************************************************************************)
InQueue(p) == \E c \in Chans : \E k \in 1..Len(chanSend[c]) : chanSend[c][k] = p
InHand(p)  == \E w \in Workers : wk[w].pc \in {"log223", "send"} /\ wk[w].payload = p
Accepted   == (1..nItems) \ late
NeverClosed == \A c \in Chans : ~chanDone[c]

\* A goroutine handing a payload from chanSend to its open transport.
Sending(w) == wk[w].conn = "open" /\ wk[w].pc \in {"log223", "send"}

\* C1: when handleCloseError returns from a closure that came after more than
\* intCacheSize sends and reported K unsent payloads, 1 <= K <= intCacheSize,
\* it has enqueued exactly the K payloads most recently handed to a transport,
\* oldest first.  Stated for the case the claim is about: the closure was
\* received in the send loop of a manager that has not been closed.
C1_ReplayIsMostRecentSends ==
    \A w \in Workers :
        LET r == wk[w] IN
        (/\ r.hce = "returned" /\ r.ret = "inner" /\ ~chanDone[w[1]]
         /\ r.sn > intCacheSize
         /\ r.unsent >= 1 /\ r.unsent <= intCacheSize)
        => r.rep = r.exp

\* C2: a closure that reports more unsent payloads than the cache has slots
\* replays exactly intCacheSize payloads, the ones most recently handed to a
\* transport, and every slot it reads is one of 0..intCacheSize-1.  Stated
\* for a manager that has not been closed and has sent at least
\* intCacheSize payloads.
C2_ClampedReplayIsLastSends ==
    /\ \A idx \in 0..(intCacheSize - 1), i \in 1..intCacheSize :
          replayIdx(idx, i) \in 0..(intCacheSize - 1)
    /\ \A w \in Workers :
          LET r == wk[w] IN
          (/\ r.hce = "returned" /\ r.ret = "inner" /\ ~chanDone[w[1]]
           /\ r.sn >= intCacheSize
           /\ r.unsent > intCacheSize)
          => (Len(r.rep) = intCacheSize /\ r.rep = r.exp)

\* C3: no accepted payload is lost: each is still on a send queue, held by a
\* goroutine that is handing it to its transport, or was handed to one.
C3_NoPayloadLost ==
    \A p \in Accepted : InQueue(p) \/ InHand(p) \/ p \in sent

\* C4: a payload whose pushOne found the manager not Active (closed, and not
\* launched again) is never on a send queue, never held by a goroutine and
\* never handed to a transport.
C4_NoDeliveryAfterClose ==
    \A p \in late : p \notin sent /\ ~InQueue(p) /\ ~InHand(p)

\* C4 witness: a payload was submitted after close() while a goroutine of the
\* closed manager was still connected and able to receive from chanSend.
C4_Witness ==
    /\ late # {}
    /\ mapAPNS # 0 /\ status[mapAPNS] = "CertsFound" /\ chanDone[cur[mapAPNS]]
    /\ \E w \in Workers : wk[w].pc = "select" /\ wk[w].conn = "open"
    /\ nSent > 0

\* C5: while close has never been called, launching the application again
\* leaves one pair of goroutines: at most two have been started.
C5_LaunchTwiceOnePair ==
    NeverClosed => Cardinality({w \in Workers : Started(w)}) <= 2

\* C6: a goroutine's exponentialBackoff is min(2^K, backoffLimit), K being the
\* closures it has received in its send loop since its last successful send
\* (or since it started); so it is 1 after a send and always within 1..128.
C6_BackoffIsMinPow2 ==
    \A w \in Workers :
        Started(w) =>
            /\ wk[w].backoff = Min(Pow2(wk[w].fails), backoffLimit)
            /\ wk[w].backoff >= 1 /\ wk[w].backoff <= backoffLimit

\* C6 witness: a goroutine has received more closures in a row than it takes
\* to reach the ceiling, and one has been reset by a send.
C6_Witness ==
    /\ \E w \in Workers : Pow2(wk[w].fails) > backoffLimit /\ wk[w].backoff = backoffLimit
    /\ nSent > 0

\* C7: the two goroutines of one launch record their sends in one cache with
\* one cursor.
C7_CacheSharedByPair ==
    \A c \in Chans :
        (Started(<<c, 1>>) /\ Started(<<c, 2>>)) =>
            /\ wk[<<c, 1>>].cache = wk[<<c, 2>>].cache
            /\ wk[<<c, 1>>].idx = wk[<<c, 2>>].idx

\* C8: at most one of the two goroutines of a launch is handing a payload
\* from the send queue to its transport.
C8_OneSocketSendsAtATime ==
    \A c \in Chans : Cardinality({sk \in Sockets : Sending(<<c, sk>>)}) <= 1

\* C9: once close() has closed a manager's chanDone, each of its goroutines
\* goes on to its exit (or the process has died of a panic), with logging on
\* or off, when every goroutine that can run does and a select whose
\* chanDone case is ready takes it in the end.
C9_ClosedWorkersExit ==
    \A w \in Workers : (Started(w) /\ chanDone[w[1]]) ~> (Exited(w) \/ panicked)

\* C10: a call of close() on an Active manager closes its open chanDone,
\* sets the status to CertsFound and changes nothing else; a call on a manager
\* that is not Active changes nothing at all, and neither panics.
C10_CloseOnceThenNoOp ==
    [][CloseConnection =>
         IF status[mapAPNS] = "Active"
         THEN /\ ~chanDone[cur[mapAPNS]]
              /\ chanDone' = [chanDone EXCEPT ![cur[mapAPNS]] = TRUE]
              /\ status' = [status EXCEPT ![mapAPNS] = "CertsFound"]
              /\ ~panicked'
              /\ UNCHANGED <<isLogging, cur, mapAPNS, owner, chanSend, chanLog,
                             chanDoneLog, wk, histVars>>
         ELSE UNCHANGED vars]_vars

\* C10 witness: a manager that was closed, launched again and closed again,
\* with goroutines of it still running.
C10_Witness ==
    /\ mapAPNS # 0 /\ status[mapAPNS] = "CertsFound" /\ chanDone[cur[mapAPNS]]
    /\ \E c \in Chans : c # cur[mapAPNS] /\ owner[c] = mapAPNS /\ chanDone[c]
    /\ ~panicked
    /\ \E w \in Workers : Started(w) /\ ~Exited(w)

FailedOutcomes == LaunchOutcomes \ {"ok"}

\* C11: a launch that fails (os.OpenFile or getBadTokens returns an error)
\* starts no goroutine, makes no channel, registers nothing in mapAPNS and
\* leaves the manager's status what it was when launch was entered (for
\* LaunchConnection: what newConnection gave it), never Active.
C11_FailedLaunchChangesNothing ==
    [][\A isLog \in BOOLEAN, out \in FailedOutcomes :
          /\ LaunchConnection(isLog, out) =>
                /\ UNCHANGED <<wk, mapAPNS, owner, cur, chanVars, panicked>>
                /\ status' = [status EXCEPT ![nMgr + 1] = newConnection(TRUE)]
          /\ \A m \in Mgrs : Launch(m, isLog, out) =>
                UNCHANGED <<wk, mapAPNS, owner, cur, chanVars, panicked, status>>
      ]_vars

\* C11 witness: a manager whose only launch failed (it has no channels and is
\* not in mapAPNS) beside one whose launch succeeded.
C11_Witness ==
    /\ \E m \in Mgrs : status[m] = "CertsFound" /\ cur[m] = 0 /\ mapAPNS # m
    /\ mapAPNS # 0

\* The goroutines of channel set c are started by this step.
StartsPair(c) == \A sk \in Sockets : ~Started(<<c, sk>>) /\ wk'[<<c, sk>>].pc # "idle"

\* This step is a launch of m that goes through to line 106.
SuccessfulLaunch(m) ==
    /\ \/ \E isLog \in BOOLEAN : Launch(m, isLog, "ok")
       \/ m = nMgr + 1 /\ \E isLog \in BOOLEAN : LaunchNew(TRUE, isLog, "ok")
    /\ cur'[m] # cur[m]
    /\ StartsPair(cur'[m])

\* C12: in every step a manager's status stays, or goes from CertsFound (or
\* from newConnection's CertsFound) to Active by a successful launch that
\* starts its two goroutines, or from Active to CertsFound by close; a NoCerts
\* manager stays NoCerts and never gets channels or goroutines.
C12_StatusTransitions ==
    [][\A m \in Mgrs :
          /\ (status'[m] = "Active" /\ status[m] # "Active") =>
                (status[m] \in {"Unknown", "CertsFound"} /\ SuccessfulLaunch(m))
          /\ (status[m] = "Active" /\ status'[m] # "Active") =>
                (status'[m] = "CertsFound" /\ CloseConnection /\ mapAPNS = m)
          /\ status[m] = "CertsFound" => status'[m] \in {"CertsFound", "Active"}
          /\ status[m] = "NoCerts" => (status'[m] = "NoCerts" /\ cur'[m] = 0)
          /\ status'[m] = "NoCerts" =>
                (cur'[m] = 0 /\ \A c \in Chans : owner'[c] # m)
      ]_vars

\* C12 witness: a manager that was closed and launched again is Active with a
\* second pair of goroutines, beside a manager that is NoCerts.
C12_Witness ==
    /\ \E m \in Mgrs : /\ status[m] = "Active" /\ cur[m] # 0
                       /\ \E c \in Chans : c # cur[m] /\ owner[c] = m /\ chanDone[c]
                       /\ \A sk \in Sockets : Started(<<cur[m], sk>>)
    /\ \E m \in Mgrs : status[m] = "NoCerts"

\* C13: once a manager's chanDoneLog has been closed, no goroutine enqueues
\* another entry on its chanLog: the stop signal comes after the last entry
\* of both goroutines.
C13_NoEntryAfterLogStop ==
    [][\A c \in Chans : chanDoneLog[c] => chanLog'[c] = chanLog[c]]_vars

\* C14: with logging on, every entry a goroutine has enqueued on chanLog is
\* taken off it again (and written to the log file) in the end: no chanLog
\* stays non-empty for ever.
C14_LogEntriesGetWritten ==
    \A c \in Chans : (chanLog[c] # <<>>) ~> (chanLog[c] = <<>>)

\* The goroutine has run launchSocket down to line 266: all it has left is the
\* close of chanDoneLog and its return.
Finished(w) == wk[w].pc \in {"close267", "exited"}

\* C15: when close() has closed a manager's chanDone and both its goroutines
\* have finished, every payload still on its chanSend was handed to a
\* transport before: closing leaves no accepted payload unsent on the queue.
C15_CloseClearsSendQueue ==
    \A c \in Chans :
        (chanDone[c] /\ \A sk \in Sockets : Finished(<<c, sk>>)) =>
            \A k \in 1..Len(chanSend[c]) : chanSend[c][k] \in sent

\* handleCloseError of w has enqueued part of its replay and has more to
\* enqueue; what it has enqueued so far is what was last sent, in order.
MidReplay(w) ==
    /\ wk[w].pc = "replay"
    /\ wk[w].rep # <<>>
    /\ Len(wk[w].rep) < Len(wk[w].exp)
    /\ wk[w].rep = SubSeq(wk[w].exp, 1, Len(wk[w].rep))

\* This step puts a payload on chanSend of channel set c.
Enqueues(c) == Len(chanSend'[c]) > Len(chanSend[c])

\* C16: from the first to the last payload one handleCloseError re-enqueues,
\* nothing else is put on that chanSend: every enqueue in between is the
\* next payload of the same replay, so the replayed payloads form one block.
C16_ReplayIsOneBlock ==
    [][\A w \in Workers :
          (MidReplay(w) /\ Enqueues(ChanOf(w))) =>
              wk'[w].rep = Append(wk[w].rep, wk[w].exp[Len(wk[w].rep) + 1])
      ]_vars

\* C17: a goroutine that waits after a failed connection attempt waits for
\* its current exponentialBackoff seconds (or for chanDone).
C17_ReconnectWaitsBackoff ==
    \A w \in Workers : wk[w].pc = "wait" => timerSeconds(wk[w]) = wk[w].backoff

\* C18: a call of launch on a manager that is Active or NoCerts changes no
\* field of the manager: not its status, its logging flag, its channels, what
\* is on them, nor its goroutines.
C18_LaunchOnActiveIsNoOp ==
    [][\A m \in Mgrs, isLog \in BOOLEAN, out \in LaunchOutcomes :
          (status[m] \in {"Active", "NoCerts"} /\ Launch(m, isLog, out)) =>
              UNCHANGED <<status, isLogging, cur, owner, chanVars, wk, mapAPNS>>
      ]_vars

\* C19: no send queue ever holds the zero payload of a cache slot that was
\* never written: a replay enqueues only payloads that were sent.
C19_NoZeroPayloadQueued ==
    \A c \in Chans : \A k \in 1..Len(chanSend[c]) : chanSend[c][k] # 0

\* The goroutine is parked in handleCloseError's pushOne on a full chanSend.
BlockedInReplay(w) ==
    /\ wk[w].pc = "replay"
    /\ wk[w].blk # 0
    /\ Len(chanSend[wk[w].blk]) >= SendCap

\* C20: the two goroutines of a launch are never both parked in the replay
\* on the full send queue (nothing else receives from chanSend, so neither
\* would ever go on).
C20_ReplayNeverBlocksBoth ==
    \A c \in Chans : ~(\A sk \in Sockets : BlockedInReplay(<<c, sk>>))

\* C21: no close of a chanDone or chanDoneLog that is closed already is ever
\* executed (such a close panics): each of the two is closed at most once.
C21_NoChannelClosedTwice == ~panicked

\* C22: a goroutine receives payloads only from the chanSend that the launch
\* which started it made: a goroutine of an earlier launch never takes a
\* payload off the queue of a later launch.
C22_ReceivesFromOwnLaunch ==
    [][\A w \in Workers :
          SelectRecv(w) => Len(chanSend'[w[1]]) < Len(chanSend[w[1]])
      ]_vars

====
